---- MODULE Spec2Model ----
(***************************************************************************)
(* A model of climlab/domain/field.py: the Field subclass of numpy.ndarray *)
(* (its constructor __new__ and its propagation hook __array_finalize__)   *)
(* and the cosine-latitude weighted global_mean.                           *)
(*                                                                         *)
(* An array is a record [shape, data]: shape is the tuple of axis lengths, *)
(* data the elements in row-major order.  Field contents are the small     *)
(* non-negative integers of the inputs; global_mean computes on them in    *)
(* IEEE-754 binary64 arithmetic (round to nearest, ties to even), which is *)
(* modelled exactly for non-negative values on arbitrary-precision         *)
(* naturals.                                                               *)
(***************************************************************************)
EXTENDS Integers, Sequences, FiniteSets, TLC

(***************************************************************************)
(* Arbitrary-precision naturals: little-endian sequences of limbs in base  *)
(* 2^12 without leading (high) zero limbs; <<>> is zero.  TLC's integers   *)
(* are 32 bits wide, a binary64 significand is 53.                         *)
(***************************************************************************)
Base == 2 ^ 12

RECURSIVE IntBitLen(_)
IntBitLen(k) == IF k = 0 THEN 0 ELSE 1 + IntBitLen(k \div 2)

LimbBits == IntBitLen(Base - 1)

RECURSIVE BNorm(_)
BNorm(a) == IF a = <<>> THEN <<>>
            ELSE IF a[Len(a)] = 0 THEN BNorm(SubSeq(a, 1, Len(a) - 1)) ELSE a

RECURSIVE BFromInt(_)
BFromInt(k) == IF k = 0 THEN <<>> ELSE <<k % Base>> \o BFromInt(k \div Base)

RECURSIVE BAddC(_, _, _)
BAddC(a, b, c) ==
    IF a = <<>> /\ b = <<>> THEN (IF c = 0 THEN <<>> ELSE <<c>>)
    ELSE LET x == IF a = <<>> THEN 0 ELSE Head(a)
             y == IF b = <<>> THEN 0 ELSE Head(b)
             s == x + y + c
         IN  <<s % Base>> \o BAddC(IF a = <<>> THEN <<>> ELSE Tail(a),
                                   IF b = <<>> THEN <<>> ELSE Tail(b),
                                   s \div Base)

BAdd(a, b) == BAddC(a, b, 0)

\* a - b for a >= b
RECURSIVE BSubC(_, _, _)
BSubC(a, b, c) ==
    IF a = <<>> THEN <<>>
    ELSE LET y == IF b = <<>> THEN 0 ELSE Head(b)
             d == Head(a) - y - c
         IN  <<(d + Base) % Base>> \o BSubC(Tail(a),
                                            IF b = <<>> THEN <<>> ELSE Tail(b),
                                            IF d < 0 THEN 1 ELSE 0)

BSub(a, b) == BNorm(BSubC(a, b, 0))

\* -1, 0, 1 as a < b, a = b, a > b
RECURSIVE BCmpAt(_, _, _)
BCmpAt(a, b, i) ==
    IF i = 0 THEN 0
    ELSE IF a[i] < b[i] THEN -1
    ELSE IF a[i] > b[i] THEN 1
    ELSE BCmpAt(a, b, i - 1)

BCmp(a, b) == IF Len(a) < Len(b) THEN -1
              ELSE IF Len(a) > Len(b) THEN 1
              ELSE BCmpAt(a, b, Len(a))

\* a * k for a limb-sized k
RECURSIVE BMulSmallC(_, _, _)
BMulSmallC(a, k, c) ==
    IF a = <<>> THEN (IF c = 0 THEN <<>> ELSE <<c>>)
    ELSE LET p == Head(a) * k + c
         IN  <<p % Base>> \o BMulSmallC(Tail(a), k, p \div Base)

BMulSmall(a, k) == IF k = 0 THEN <<>> ELSE BMulSmallC(a, k, 0)

RECURSIVE BMul(_, _)
BMul(a, b) ==
    IF a = <<>> \/ b = <<>> THEN <<>>
    ELSE LET rest == BMul(a, Tail(b))
         IN  BAdd(BMulSmall(a, Head(b)), IF rest = <<>> THEN <<>> ELSE <<0>> \o rest)

\* floor(a / k) for a limb-sized k > 0: long division from the high limb
RECURSIVE BDivSmallAt(_, _, _, _)
BDivSmallAt(a, k, i, r) ==
    IF i = 0 THEN <<>>
    ELSE LET cur == r * Base + a[i]
         IN  BDivSmallAt(a, k, i - 1, cur % k) \o <<cur \div k>>

BDivSmall(a, k) == BNorm(BDivSmallAt(a, k, Len(a), 0))

Zeros(n) == [i \in 1..n |-> 0]

\* a * 2^s and floor(a / 2^s)
BShl(a, s) == IF a = <<>> THEN <<>>
              ELSE Zeros(s \div LimbBits) \o BMulSmall(a, 2 ^ (s % LimbBits))

BShr(a, s) == IF s \div LimbBits >= Len(a) THEN <<>>
              ELSE BDivSmall(SubSeq(a, s \div LimbBits + 1, Len(a)), 2 ^ (s % LimbBits))

BitLen(a) == IF a = <<>> THEN 0 ELSE LimbBits * (Len(a) - 1) + IntBitLen(a[Len(a)])

BOdd(a) == a /= <<>> /\ a[1] % 2 = 1

\* the largest g with d * g <= cur, for cur < d * Base: bisection on the bits of g
RECURSIVE QuotDigit(_, _, _, _)
QuotDigit(cur, d, bit, acc) ==
    IF bit < 0 THEN acc
    ELSE IF BCmp(BMulSmall(d, acc + 2 ^ bit), cur) <= 0
         THEN QuotDigit(cur, d, bit - 1, acc + 2 ^ bit)
         ELSE QuotDigit(cur, d, bit - 1, acc)

\* <<floor(n / d), n mod d>> for d > 0: long division, limb i of n downwards
RECURSIVE BDivStep(_, _, _, _, _)
BDivStep(n, d, i, q, r) ==
    IF i = 0 THEN <<BNorm(q), r>>
    ELSE LET cur == BNorm(<<n[i]>> \o r)
             g   == QuotDigit(cur, d, LimbBits - 1, 0)
         IN  BDivStep(n, d, i - 1, <<g>> \o q, BSub(cur, BMulSmall(d, g)))

BDivMod(n, d) == BDivStep(n, d, Len(n), <<>>, <<>>)

(***************************************************************************)
(* Non-negative binary64 values: [m, e] stands for m * 2^e, kept canonical *)
(* (m odd, or m = <<>> and e = 0 for zero) so that equal values are equal  *)
(* records.  Every operation computes the exact result and rounds it to    *)
(* SigBits significant bits, to nearest, ties to even.  Overflow and       *)
(* subnormals are out of the modelled range.                               *)
(***************************************************************************)
SigBits == 52 + 1

RECURSIVE IntTrailingZeros(_)
IntTrailingZeros(k) == IF k % 2 = 1 THEN 0 ELSE 1 + IntTrailingZeros(k \div 2)

\* the number of trailing zero bits of a > 0
RECURSIVE TrailingZeros(_)
TrailingZeros(a) == IF Head(a) = 0 THEN LimbBits + TrailingZeros(Tail(a))
                    ELSE IntTrailingZeros(Head(a))

Canon(m, e) == IF m = <<>> THEN [m |-> <<>>, e |-> 0]
               ELSE LET tz == TrailingZeros(m) IN [m |-> BShr(m, tz), e |-> e + tz]

\* n * 2^e rounded; sticky says that the exact value is a little more than n * 2^e
RoundSig(n, e, sticky) ==
    LET L == BitLen(n)
    IN  IF L <= SigBits THEN Canon(n, e)
        ELSE LET s    == L - SigBits
                 q    == BShr(n, s)
                 rem  == BSub(n, BShl(q, s))
                 c    == BCmp(rem, BShl(<<1>>, s - 1))
                 up   == c > 0 \/ (c = 0 /\ (sticky \/ BOdd(q)))
             IN  Canon(IF up THEN BAdd(q, <<1>>) ELSE q, e + s)

FZero == [m |-> <<>>, e |-> 0]

FromInt(k) == Canon(BFromInt(k), 0)

FAdd(x, y) ==
    LET e == IF x.e < y.e THEN x.e ELSE y.e
    IN  IF x.m = <<>> THEN y
        ELSE IF y.m = <<>> THEN x
        ELSE RoundSig(BAdd(BShl(x.m, x.e - e), BShl(y.m, y.e - e)), e, FALSE)

FMul(x, y) == RoundSig(BMul(x.m, y.m), x.e + y.e, FALSE)

\* x / y for y > 0: a quotient of at least SigBits + 2 bits, and the remainder as sticky
FDiv(x, y) ==
    LET k0 == SigBits + 3 + BitLen(y.m) - BitLen(x.m)
        k  == IF k0 < 0 THEN 0 ELSE k0
        qr == BDivMod(BShl(x.m, k), y.m)
    IN  IF x.m = <<>> THEN FZero
        ELSE RoundSig(qr[1], x.e - y.e - k, qr[2] /= <<>>)

(***************************************************************************)
(* np.cos(np.deg2rad(lat)) in binary64 for the latitudes of the model's    *)
(* domains.  deg2rad is odd and cos even, so a latitude and its opposite   *)
(* have the same weight.  cos(deg2rad(90)) is 0x1.1a62633145c07p-54, not   *)
(* zero: deg2rad(90) is the binary64 nearest pi/2, not pi/2.               *)
(***************************************************************************)
CosDeg(lat) ==
    LET a == IF lat < 0 THEN -lat ELSE lat
    IN  CASE a = 0  -> [m |-> <<1>>, e |-> 0]
          [] a = 30 -> [m |-> <<3243, 1412, 2792, 2919, 27>>, e |-> -53]
          [] a = 45 -> [m |-> <<3021, 2035, 3686, 2569, 22>>, e |-> -53]
          [] a = 60 -> [m |-> <<1, 0, 0, 0, 16>>, e |-> -53]
          [] a = 90 -> [m |-> <<3079, 325, 1587, 2658, 17>>, e |-> -106]

(***************************************************************************)
(* The array engine (numpy), as far as field.py uses it.                   *)
(***************************************************************************)
RECURSIVE Prod(_)
Prod(s) == IF s = <<>> THEN 1 ELSE Head(s) * Prod(Tail(s))

Rev(s) == [i \in 1..Len(s) |-> s[Len(s) + 1 - i]]

\* the row-major position (from 0) of the index tuple idx (from 0) in an array of this shape
RECURSIVE Ravel(_, _)
Ravel(idx, shape) ==
    IF idx = <<>> THEN 0
    ELSE Ravel(SubSeq(idx, 1, Len(idx) - 1), SubSeq(shape, 1, Len(shape) - 1))
             * shape[Len(shape)] + idx[Len(idx)]

Unravel(k, shape) ==
    [i \in 1..Len(shape) |-> (k \div Prod(SubSeq(shape, i + 1, Len(shape)))) % shape[i]]

\* Mutant of Transpose: the shape reversed over the elements in their old order
TransposeAsReshape(a) == [a EXCEPT !.shape = Rev(a.shape)]

\* np.transpose: the axes reversed
Transpose(a) ==
    LET tshape == Rev(a.shape)
    IN  [a EXCEPT !.shape = tshape,
                  !.data = [k \in 1..Prod(tshape) |->
                               a.data[Ravel(Rev(Unravel(k - 1, tshape)), a.shape) + 1]]]

AtLeast1d(a) == IF a.shape = <<>> THEN [a EXCEPT !.shape = <<1>>] ELSE a

AtLeast2d(a) == IF Len(a.shape) = 0 THEN [a EXCEPT !.shape = <<1, 1>>]
                ELSE IF Len(a.shape) = 1 THEN [a EXCEPT !.shape = <<1>> \o a.shape]
                ELSE a

\* ndarray.squeeze: every axis of length 1 removed
Squeeze(a) == [a EXCEPT !.shape = SelectSeq(a.shape, LAMBDA n : n /= 1)]

\* a[i:j] on the first axis, for 0 <= i, j <= a.shape[1]
SliceRows(a, i, j) ==
    LET row == Prod(Tail(a.shape))
        hi  == IF j < i THEN i ELSE j
    IN  [a EXCEPT !.shape = <<hi - i>> \o Tail(a.shape),
                  !.data = SubSeq(a.data, i * row + 1, hi * row)]

\* Mutant of Broadcastable: only equal shapes are accepted
BroadcastableStrict(shape, n) == shape = <<n>>

\* numpy's broadcasting rule for a shape against the shape (n,)
Broadcastable(shape, n) ==
    shape = <<>> \/ shape[Len(shape)] = n \/ shape[Len(shape)] = 1 \/ n = 1

\* array * weights, flattened in row-major order; w is a sequence of binary64 values
BroadcastMul(a, w) ==
    LET n == Len(w)
        L == IF a.shape = <<>> THEN 1 ELSE a.shape[Len(a.shape)]
    IN  IF L = 1
        THEN [k \in 1..(Prod(a.shape) * n) |->
                 FMul(FromInt(a.data[(k - 1) \div n + 1]), w[((k - 1) % n) + 1])]
        ELSE [k \in 1..Prod(a.shape) |->
                 FMul(FromInt(a.data[k]), w[IF n = 1 THEN 1 ELSE ((k - 1) % L) + 1])]

\* np.sum of binary64 values: fewer than 8 elements are added left to right from 0.0
RECURSIVE NpSum(_)
NpSum(s) == IF s = <<>> THEN FZero
            ELSE FAdd(NpSum(SubSeq(s, 1, Len(s) - 1)), s[Len(s)])

(***************************************************************************)
(* Objects.  A plain ndarray has no domain attribute; a Field has one once *)
(* __array_finalize__ or __new__ has set it.  A Domain is referred to by   *)
(* its identity; None is Python's None.                                    *)
(***************************************************************************)
None == "None"
Unset == "Unset"
NoObj == [cls |-> "none", shape |-> <<>>, data |-> <<>>, domain |-> Unset]

NdArray(shape, data) == [cls |-> "ndarray", shape |-> shape, data |-> data, domain |-> Unset]

Ok(obj, val) == [kind |-> "ok", exc |-> "", msg |-> "", obj |-> obj, val |-> val]
Raise(exc, msg) == [kind |-> "raise", exc |-> exc, msg |-> msg, obj |-> NoObj, val |-> FZero]

ShapeMismatchMsg == "input_array and domain have different shapes."
NoLatitudeMsg == "No latitude axis in input field."
BroadcastMsg == "operands could not be broadcast together"

\* getattr(obj, 'domain', None)
GetDomain(obj) == IF obj.domain = Unset THEN None ELSE obj.domain

\* Mutant of ArrayFinalize: a new array whose shape differs from its source's
\* does not inherit the domain
ArrayFinalizeRevalidate(self, obj) ==
    IF obj = NoObj THEN self
    ELSE [self EXCEPT !.domain = IF self.shape = obj.shape THEN GetDomain(obj) ELSE None]

\* Field.__array_finalize__(self, obj); NoObj stands for obj is None
ArrayFinalize(self, obj) ==
    IF obj = NoObj THEN self ELSE [self EXCEPT !.domain = GetDomain(obj)]

\* A new Field over the array arr, made by the engine from the object obj
\* (a view, a slice, a template, a ufunc's result): the engine calls the hook.
Derive(arr, obj) ==
    ArrayFinalize([cls |-> "Field", shape |-> arr.shape, data |-> arr.data, domain |-> Unset],
                  obj)

\* Mutant of FieldNew: the fast path forgets line 88, obj.domain = domain
FieldNewNoAttach(input_array, domain, doms) ==
    LET obj == Derive(AtLeast1d(input_array), AtLeast1d(input_array))
        two == Derive(AtLeast2d(obj), obj)
        tr  == Derive(Transpose(two), two)
    IN  IF domain = None
        THEN [res |-> Raise("AttributeError", "'NoneType' object has no attribute 'shape'"),
              domains |-> doms]
        ELSE IF obj.shape = doms[domain].shape
        THEN [res |-> Ok(obj, FZero), domains |-> doms]
        ELSE IF tr.shape = doms[domain].shape
        THEN [res |-> Ok([tr EXCEPT !.domain = domain], FZero), domains |-> doms]
        ELSE [res |-> Ok(tr, FZero), domains |-> doms]

\* Mutant of FieldNew: shapes that cannot be reconciled are reconciled by
\* giving the Domain the array's shape
FieldNewResizeDomain(input_array, domain, doms) ==
    LET obj == Derive(AtLeast1d(input_array), AtLeast1d(input_array))
        two == Derive(AtLeast2d(obj), obj)
        tr  == Derive(Transpose(two), two)
    IN  IF domain = None
        THEN [res |-> Raise("AttributeError", "'NoneType' object has no attribute 'shape'"),
              domains |-> doms]
        ELSE IF obj.shape = doms[domain].shape
        THEN [res |-> Ok([obj EXCEPT !.domain = domain], FZero), domains |-> doms]
        ELSE IF tr.shape = doms[domain].shape
        THEN [res |-> Ok([tr EXCEPT !.domain = domain], FZero), domains |-> doms]
        ELSE [res |-> Ok([tr EXCEPT !.domain = domain], FZero),
              domains |-> [doms EXCEPT ![domain].shape = tr.shape]]

(***************************************************************************)
(* Field.__new__(cls, input_array, domain=None).  doms is the heap of      *)
(* Domain objects; the call returns its result and the heap after it.      *)
(*   line 84  obj = np.atleast_1d(input_array).view(cls)                   *)
(*   line 87  domain.shape is read outside the try: None has no shape      *)
(*   line 91  obj = np.transpose(np.atleast_2d(obj)); each step is a new   *)
(*            Field finalized from the previous one                        *)
(*   line 92  a transposed shape that does not match raises nothing: the   *)
(*            except clause of line 94 sees only exceptions, and none of   *)
(*            lines 91-93 raises for a domain that has a shape             *)
(***************************************************************************)
FieldNew(input_array, domain, doms) ==
    LET obj == Derive(AtLeast1d(input_array), AtLeast1d(input_array))
        two == Derive(AtLeast2d(obj), obj)
        tr  == Derive(Transpose(two), two)
    IN  IF domain = None
        THEN [res |-> Raise("AttributeError", "'NoneType' object has no attribute 'shape'"),
              domains |-> doms]
        ELSE IF obj.shape = doms[domain].shape
        THEN [res |-> Ok([obj EXCEPT !.domain = domain], FZero), domains |-> doms]
        ELSE IF tr.shape = doms[domain].shape
        THEN [res |-> Ok([tr EXCEPT !.domain = domain], FZero), domains |-> doms]
        ELSE [res |-> Ok(tr, FZero), domains |-> doms]

\* field.domain.axes['lat'].points (line 134), with the exception it raises
LatLookup(field, doms) ==
    IF field.domain = Unset
    THEN [kind |-> "raise", exc |-> "AttributeError", lat |-> <<>>]
    ELSE IF field.domain = None
    THEN [kind |-> "raise", exc |-> "AttributeError", lat |-> <<>>]
    ELSE IF ~doms[field.domain].hasAxes
    THEN [kind |-> "raise", exc |-> "AttributeError", lat |-> <<>>]
    ELSE IF ~doms[field.domain].hasLat
    THEN [kind |-> "raise", exc |-> "KeyError", lat |-> <<>>]
    ELSE [kind |-> "ok", exc |-> "", lat |-> doms[field.domain].lat]

\* Mutant of _global_mean: the weighted sum divided by the number of latitudes
_global_mean_by_count(array, lat) ==
    LET w == [i \in 1..Len(lat) |-> CosDeg(lat[i])]
    IN  IF ~Broadcastable(array.shape, Len(lat))
        THEN Raise("ValueError", BroadcastMsg)
        ELSE Ok(NoObj, FDiv(NpSum(BroadcastMul(array, w)), FromInt(Len(lat))))

\* _global_mean(array, lat_radians), lat_radians = np.deg2rad(lat); lat is not empty
_global_mean(array, lat) ==
    LET w == [i \in 1..Len(lat) |-> CosDeg(lat[i])]
    IN  IF ~Broadcastable(array.shape, Len(lat))
        THEN Raise("ValueError", BroadcastMsg)
        ELSE Ok(NoObj, FDiv(NpSum(BroadcastMul(array, w)), NpSum(w)))

\* Mutant of global_mean: no try around the lookup, its exception escapes
global_mean_no_except(field, doms) ==
    LET look == LatLookup(field, doms)
    IN  IF look.kind = "raise"
        THEN Raise(look.exc, "")
        ELSE _global_mean(Derive(Squeeze(field), field), look.lat)

\* global_mean(field): the bare except of line 135 turns every exception of
\* the lookup into the ValueError of line 136
global_mean(field, doms) ==
    LET look == LatLookup(field, doms)
    IN  IF look.kind = "raise"
        THEN Raise("ValueError", NoLatitudeMsg)
        ELSE _global_mean(Derive(Squeeze(field), field), look.lat)

(***************************************************************************)
(* The state: the Domain objects, the live Fields, and the last call with  *)
(* its argument and result.  prov is history: whether the engine derived   *)
(* the live Field (or the constructor returned it), and the domain carried *)
(* by the constructed Field its chain of derivations started from.         *)
(***************************************************************************)
VARIABLES domains, fields, prov, last

vars == <<domains, fields, prov, last>>

MaxFields == 2

Domain(shape, hasAxes, hasLat, lat) ==
    [shape |-> shape, hasAxes |-> hasAxes, hasLat |-> hasLat, lat |-> lat]

DomainIds == {"atm", "sfc", "col", "grid", "pt", "bare"}

DomainPool ==
    [d \in DomainIds |->
        CASE d = "atm"  -> Domain(<<3>>, TRUE, TRUE, <<-90, 0, 90>>)
          [] d = "sfc"  -> Domain(<<3>>, TRUE, TRUE, <<-45, 0, 45>>)
          [] d = "col"  -> Domain(<<3, 1>>, TRUE, TRUE, <<-60, 0, 60>>)
          [] d = "grid" -> Domain(<<3, 2>>, TRUE, FALSE, <<>>)
          [] d = "pt"   -> Domain(<<1>>, TRUE, TRUE, <<30>>)
          [] d = "bare" -> Domain(<<3>>, FALSE, FALSE, <<>>)]

InputArrays ==
    { NdArray(<<>>, <<5>>),
      NdArray(<<3>>, <<10, 20, 30>>),
      NdArray(<<3>>, <<1, 1, 1>>),
      NdArray(<<3>>, <<3, 3, 3>>),
      NdArray(<<2, 3>>, <<1, 2, 3, 4, 5, 6>>) }

Call(op, arg, dom, res) == [op |-> op, arg |-> arg, dom |-> dom, res |-> res]

Init ==
    /\ domains = DomainPool
    /\ fields = <<>>
    /\ prov = <<>>
    /\ last = Call("init", NoObj, None, Ok(NoObj, FZero))

\* The live Fields are a window on one chain: an input array's Field and what
\* was constructed or derived from it, step by step.  A call acts on the newest
\* Field, and the oldest reference is the one that goes away.
Newest == fields[Len(fields)]

NewestProv == prov[Len(prov)]

\* Field(input_array, domain), a raised exception leaving no object behind
Construct(input, d) ==
    LET r == FieldNew(input, d, domains)
    IN  /\ Len(fields) < MaxFields
        /\ domains' = r.domains
        /\ last' = Call("Field", input, d, r.res)
        /\ IF r.res.kind = "ok"
           THEN /\ fields' = Append(fields, r.res.obj)
                /\ prov' = Append(prov, [derived |-> FALSE, root |-> r.res.obj.domain])
           ELSE UNCHANGED <<fields, prov>>

ConstructFromArray ==
    /\ fields = <<>>
    /\ \E a \in InputArrays, d \in DomainIds \cup {None} : Construct(a, d)

ConstructFromField ==
    /\ fields /= <<>>
    /\ \E d \in DomainIds \cup {None} : Construct(Newest, d)

\* a Field the engine derives from the newest Field
Derived(op, arr) ==
    LET new == Derive(arr, Newest)
    IN  /\ fields /= <<>>
        /\ Len(fields) < MaxFields
        /\ fields' = Append(fields, new)
        /\ prov' = Append(prov, [derived |-> TRUE, root |-> NewestProv.root])
        /\ last' = Call(op, Newest, None, Ok(new, FZero))
        /\ UNCHANGED domains

\* f[lo:hi]; a Field of rank 0 (a view of a 0-d ndarray) cannot be sliced
Slice ==
    /\ fields /= <<>>
    /\ Newest.shape /= <<>>
    /\ \E lo, hi \in 0..Newest.shape[1] :
           lo <= hi /\ Derived("slice", SliceRows(Newest, lo, hi))

\* f.view()
View == fields /= <<>> /\ Derived("view", Newest)

\* np.zeros_like(f)
ZerosLike ==
    /\ fields /= <<>>
    /\ Derived("zeros_like", [Newest EXCEPT !.data = [k \in 1..Len(Newest.data) |-> 0]])

\* f - f, a ufunc's result
Subtract ==
    /\ fields /= <<>>
    /\ Derived("subtract", [Newest EXCEPT !.data = [k \in 1..Len(Newest.data) |->
                                                      Newest.data[k] - Newest.data[k]]])

\* a.view(Field) of a plain ndarray a
ViewCast ==
    /\ fields = <<>>
    /\ \E a \in InputArrays :
           /\ fields' = <<Derive(a, a)>>
           /\ prov' = <<[derived |-> TRUE, root |-> None]>>
           /\ last' = Call("viewcast", a, None, Ok(Derive(a, a), FZero))
           /\ UNCHANGED domains

\* global_mean(f)
GlobalMean ==
    /\ fields /= <<>>
    /\ last' = Call("global_mean", Newest, None, global_mean(Newest, domains))
    /\ UNCHANGED <<domains, fields, prov>>

\* the oldest reference goes away
Release ==
    /\ fields /= <<>>
    /\ fields' = Tail(fields)
    /\ prov' = Tail(prov)
    /\ last' = Call("del", Head(fields), None, Ok(NoObj, FZero))
    /\ UNCHANGED domains

Next ==
    \/ ConstructFromArray
    \/ ConstructFromField
    \/ Slice
    \/ View
    \/ ZerosLike
    \/ Subtract
    \/ ViewCast
    \/ GlobalMean
    \/ Release

Spec == Init /\ [][Next]_vars

(***************************************************************************)
(* The claims.  Each is about the last call: its argument, the domain      *)
(* passed, and what it returned or raised.                                 *)
(***************************************************************************)
NewCall == last.op = "Field"

Returned == last.res.kind = "ok"

PromotedShape == IF last.arg.shape = <<>> THEN <<1>> ELSE last.arg.shape

Promoted2dShape == IF Len(PromotedShape) = 1 THEN <<1>> \o PromotedShape ELSE PromotedShape

DirectMatch == last.dom /= None /\ PromotedShape = domains[last.dom].shape

TransposeMatch ==
    last.dom /= None /\ ~DirectMatch /\ Rev(Promoted2dShape) = domains[last.dom].shape

\* C1: Field(A, D) with the promoted shape of A equal to D.shape returns a Field
\* whose domain is D and whose shape and elements are those of A, untransposed.
C1_FastPath ==
    (NewCall /\ DirectMatch) =>
        /\ Returned
        /\ last.res.obj.cls = "Field"
        /\ last.res.obj.domain = last.dom
        /\ last.res.obj.shape = PromotedShape
        /\ last.res.obj.data = last.arg.data
        /\ Newest = last.res.obj

C1_Witness ==
    NewCall /\ DirectMatch /\ Returned /\ last.arg.shape = <<3, 2>> /\ last.dom = "grid"

\* C2: Field(A, D) with A.shape /= D.shape and the shape of the transposed
\* rank-2 promotion of A equal to D.shape returns a Field with domain D whose
\* element [i][j] is element [j][i] of that promotion of A.
C2_TransposeFallback ==
    (NewCall /\ TransposeMatch) =>
        LET r == Promoted2dShape[1]
            c == Promoted2dShape[2]
        IN  /\ Returned
            /\ last.res.obj.domain = last.dom
            /\ last.res.obj.shape = <<c, r>>
            /\ Len(last.res.obj.data) = r * c
            /\ \A i \in 0..(c - 1), j \in 0..(r - 1) :
                   last.res.obj.data[i * r + j + 1] = last.arg.data[j * c + i + 1]

C2_Witness ==
    /\ NewCall /\ TransposeMatch /\ Returned
    /\ last.arg.shape = <<2, 3>>
    /\ last.res.obj.data = <<1, 4, 2, 5, 3, 6>>

\* C3: Field(A, D) with neither the promoted shape of A nor its transposed
\* rank-2 shape equal to D.shape raises ValueError 'input_array and domain
\* have different shapes' and returns no Field.
C3_MismatchRaises ==
    (NewCall /\ last.dom /= None /\ ~DirectMatch /\ ~TransposeMatch) =>
        /\ last.res.kind = "raise"
        /\ last.res.exc = "ValueError"
        /\ last.res.msg = ShapeMismatchMsg

\* C4: Field(A, None) raises nothing and returns a Field whose domain is None.
C4_NullDomainPassthrough ==
    (NewCall /\ last.dom = None) => (Returned /\ last.res.obj.domain = None)

DeriveOps == {"slice", "view", "zeros_like", "subtract"}

\* C5: a Field derived from a Field (a slice, a view, zeros_like, arithmetic)
\* is made without an error and carries its source's domain, and so, along
\* any chain of derivations, the domain of the constructed Field the chain
\* started from, whatever the derived shape; a Field view of an array that
\* has no domain attribute carries None.
C5_DomainPropagation ==
    /\ \A i \in 1..Len(fields) : prov[i].derived => fields[i].domain = prov[i].root
    /\ last.op \in DeriveOps =>
           /\ Returned
           /\ last.res.obj.cls = "Field"
           /\ last.res.obj.domain = last.arg.domain
    /\ last.op = "viewcast" => (Returned /\ last.res.obj.domain = None)

C5_Witness ==
    /\ Len(fields) = 2
    /\ prov[1].derived /\ prov[2].derived
    /\ last.op = "slice"
    /\ fields[2].domain \in DomainIds
    /\ fields[2].shape /= fields[1].shape
    /\ fields[2].shape /= domains[fields[2].domain].shape

\* C6: a Field returned by Field(input, D) with a domain that is not None has
\* the shape of that domain.
C6_ConstructedShapeMatchesDomain ==
    (NewCall /\ Returned /\ last.res.obj.domain /= None) =>
        last.res.obj.shape = domains[last.res.obj.domain].shape

MeanCall == last.op = "global_mean"

HasLat(f) == /\ f.domain \in DomainIds
             /\ domains[f.domain].hasAxes
             /\ domains[f.domain].hasLat

Lat == domains[last.arg.domain].lat

SqueezedShape == SelectSeq(last.arg.shape, LAMBDA n : n /= 1)

\* the length of the squeezed contents, of rank at most 1, along the latitude axis
SqueezedLen == IF SqueezedShape = <<>> THEN 1 ELSE SqueezedShape[1]

\* a Field over one latitude axis: as many values as the domain has latitudes
MeanCase ==
    /\ MeanCall /\ HasLat(last.arg)
    /\ Len(SqueezedShape) <= 1
    /\ Len(last.arg.data) = Len(Lat)

Weight(i) == CosDeg(Lat[i])

RECURSIVE MinExp(_)
MinExp(i) == IF i = 1 THEN Weight(1).e
             ELSE IF Weight(i).e < MinExp(i - 1) THEN Weight(i).e ELSE MinExp(i - 1)

\* the weights, and the weighted values, summed exactly in units of 2^MinExp
RECURSIVE ExactW(_)
ExactW(i) == IF i = 0 THEN <<>>
             ELSE BAdd(ExactW(i - 1), BShl(Weight(i).m, Weight(i).e - MinExp(Len(Lat))))

RECURSIVE ExactS(_)
ExactS(i) == IF i = 0 THEN <<>>
             ELSE BAdd(ExactS(i - 1),
                       BMulSmall(BShl(Weight(i).m, Weight(i).e - MinExp(Len(Lat))),
                                 last.arg.data[i]))

\* result * sum(w) and sum(v * w) in one unit
MeanLhs == IF last.res.val.e < 0 THEN BMul(last.res.val.m, ExactW(Len(Lat)))
           ELSE BShl(BMul(last.res.val.m, ExactW(Len(Lat))), last.res.val.e)

MeanRhs == IF last.res.val.e < 0 THEN BShl(ExactS(Len(Lat)), 0 - last.res.val.e)
           ELSE ExactS(Len(Lat))

MeanError == IF BCmp(MeanLhs, MeanRhs) >= 0 THEN BSub(MeanLhs, MeanRhs)
             ELSE BSub(MeanRhs, MeanLhs)

Uniform == \A i \in 1..Len(last.arg.data) : last.arg.data[i] = last.arg.data[1]

PolesExample == last.arg.data = <<10, 20, 30>> /\ Lat = <<-90, 0, 90>>

\* 20 + 2^-48, the binary64 after 20.0: 20.000000000000004
TwentyAndOneUlp == Canon(BAdd(BShl(BFromInt(20), 48), <<1>>), 0 - 48)

\* C7 as stated: global_mean of values v over latitudes with weights
\* w = cos(lat) returns sum(v * w) / sum(w); a uniform field of value c returns
\* c; latitudes -90, 0, 90 with values 10, 20, 30 return exactly 20.
C7_ExactWeightedMean ==
    MeanCase =>
        /\ Returned
        /\ MeanLhs = MeanRhs
        /\ Uniform => last.res.val = FromInt(last.arg.data[1])
        /\ PolesExample => last.res.val = FromInt(20)

\* C7 as amended: the result is sum(v * w) / sum(w) evaluated in binary64 on
\* the binary64 weights w = cos(deg2rad(lat)), within 2n + 2 units of 2^-53
\* of the exact quotient, relatively (n latitudes); values 1, 1, 1 return 1.0;
\* latitudes -90, 0, 90 with values 10, 20, 30 return 20 + 2^-48.
C7_RoundedWeightedMean ==
    MeanCase =>
        /\ Returned
        /\ BCmp(BShl(MeanError, SigBits), BMulSmall(MeanRhs, 2 * Len(Lat) + 2)) <= 0
        /\ (Uniform /\ last.arg.data[1] = 1) => last.res.val = FromInt(1)
        /\ PolesExample => last.res.val = TwentyAndOneUlp

C7_Witness ==
    MeanCase /\ Returned /\ PolesExample /\ last.res.val /= FromInt(20)

\* C8: global_mean of a Field whose domain is None, has no axes mapping, or
\* has no 'lat' entry raises ValueError 'No latitude axis in input field' and
\* returns no value; the exception of the lookup does not escape.
C8_NoLatitudeAxis ==
    (MeanCall /\ ~HasLat(last.arg)) =>
        /\ last.res.kind = "raise"
        /\ last.res.exc = "ValueError"
        /\ last.res.msg = NoLatitudeMsg

C8_Witness ==
    MeanCall /\ last.arg.domain = "grid" /\ last.res.kind = "raise"

\* C9: no call changes a Domain: the Domain objects are those of the start.
C9_DomainsReadOnly == domains = DomainPool

C9_Witness ==
    /\ Len(fields) = 2
    /\ fields[1].domain \in DomainIds
    /\ fields[1].domain = fields[2].domain
    /\ MeanCall /\ Returned

ShapeMismatched ==
    /\ MeanCall /\ HasLat(last.arg)
    /\ Len(SqueezedShape) <= 1
    /\ SqueezedLen /= Len(Lat)

BroadcastError ==
    /\ last.res.kind = "raise"
    /\ last.res.exc = "ValueError"
    /\ last.res.msg = BroadcastMsg

\* C10 as stated: global_mean of a Field whose squeezed contents have k
\* elements along the latitude axis and whose domain has n /= k latitudes
\* raises the engine's broadcast error, for every k /= n.
C10_EveryMismatchRaises == ShapeMismatched => BroadcastError

\* C10 as amended: with k /= n, global_mean raises the engine's broadcast
\* error, not the no-latitude error, when neither k nor n is 1; when k = 1 (a
\* slice of length 1, squeezed to a scalar) or n = 1 the shapes broadcast and
\* global_mean returns a number.
C10_MismatchRaisesUnlessOne ==
    ShapeMismatched =>
        IF SqueezedLen /= 1 /\ Len(Lat) /= 1
        THEN BroadcastError /\ last.res.msg /= NoLatitudeMsg
        ELSE Returned

C10_Witness ==
    ShapeMismatched /\ SqueezedLen = 2 /\ Len(Lat) = 3 /\ BroadcastError

====
